---- MODULE Spec2Model ----
(***************************************************************************)
(* State-machine model of the Spy Word Game server (src/server.js): the    *)
(* session registry, the GameSession class and the socket.io handlers.     *)
(*                                                                         *)
(* Every handler runs to completion (single-threaded event loop), so each  *)
(* handler and each timeout callback is one atomic action.                 *)
(***************************************************************************)
EXTENDS Integers, Sequences, FiniteSets, TLC

VARIABLES
    gameSessions,  \* the registry Map, in insertion order: a sequence of GameSession records
    detached,      \* GameSession objects no longer in the registry that a pending timeout still closes over
    wordList,      \* the word pool, in insertion order
    idSource,      \* the byte triples crypto.randomBytes(3) returns in this run, in order
    draws,         \* how many of them generateSessionId has consumed
    sockets,       \* io.sockets.sockets: the connections that are live
    outbox,        \* the events emitted, and the HTTP answer given, by the handler that ran last, in order
    lastOp,        \* the handler that ran last: [op, socket, hasData, data], data its payload
    running,       \* FALSE once an uncaught exception has ended the process
    frame,         \* the local variables of a function run step by step; NoFrame when handlers run whole
    wordFile       \* what the run has appended to word_list.csv, in order

vars == <<gameSessions, detached, wordList, idSource, draws, sockets, outbox, lastOp, running,
          frame, wordFile>>

\* null, in the fields whose other values are no strings of a client: a timer, a
\* start time, an error message, a connection
Null == "null"
Undefined == "undefined"
NoFrame == [fn |-> "none"]

\* the character U+000B, which has no escape in a string of this module
VerticalTab == ""

---------------------------------------------------------------------------
(* Bounds of the model *)

\* superseded timeouts of one session that were never cleared
MaxUncleared == 1

\* players in the roster when roles are assigned, where rosters of every size are tried
MaxRoster == 6

\* the largest duration a client sends where every duration is tried
MaxDuration == 61

\* the draws of one word selection that are counted; further draws leave the count there
MaxDraws == 3

\* the longest array handed to secureshuffle on its own
MaxLen == 4

---------------------------------------------------------------------------
(* Inputs *)

Conns == {"h", "p1", "p2", "p3", "p4", "p5", "p6", "p7"}

\* a fixed enumeration of the connection ids, used to list the keys of a Map
ConnOrder == <<"h", "p1", "p2", "p3", "p4", "p5", "p6", "p7">>

\* nicknames are strings, modelled as sequences of characters
NickAl == <<"A", "l">>
NickBo == <<"B", "o">>
NickCy == <<"C", "y">>
NickDi == <<"D", "i">>
NickEd == <<"E", "d">>
NickFy == <<"F", "y">>
NickGo == <<"G", "o">>
NickAlLower == <<"a", "l">>
NickAlVariant == <<"\t", "A", "L", " ">>
NickKim == <<"K", "i", "m">>
NickKimLower == <<VerticalTab, "k", "i", "m", "\n">>
NickBlank == <<" ", " ">>
NickOfLength(n) == [i \in 1..n |-> "x"]

\* the nickname each player types into joinSession
NicknamesOf(c) ==
    CASE c = "p1" -> {NickAl}
      [] c = "p2" -> {NickBo}
      [] c = "p3" -> {NickCy}
      [] c = "p4" -> {NickDi}
      [] OTHER    -> {}

\* the connections that issue createSession, with the duration they send
CreateInputs ==
    {<<"h", [duration |-> 5]>>, <<"p1", [duration |-> 4]>>,
     <<"p1", [duration |-> 61]>>, <<"p1", [other |-> 0]>>}

\* the arguments createSession is sent with: none, a payload with no duration, and
\* one with each integer from -1 on
DurationInputs ==
    {<< >>, <<[other |-> 0]>>} \cup {<<[duration |-> d]>> : d \in (-1)..MaxDuration}

\* the connections that issue joinSessionAsHost
Reclaimers == {"p1"}

\* the connections that disconnect
Leavers == {"h", "p1"}

\* the connections that issue the host commands
Commanders == {"h", "p1"}

\* the connections that send the keep-alive events
Pingers == {"p1"}

\* the events of the keep-alive handlers that take no payload
KeepAliveEvents ==
    {"ping", "keep-alive", "background-mode", "window-blur", "page-freeze", "touch-keep-alive"}

\* the bodies posted to /api/add-word: a word in white space that differs from a
\* word of the pool in case only, a blank word, a body without the field
AddWordInputs == {[word |-> " Apple\t"], [word |-> " \t"], [other |-> 0]}

\* byte triples of the entropy source
SessionBytes == <<0, 171, 10>>
OtherBytes == <<255, 1, 32>>

\* pools of more than one word that word_list.csv can hold
LargerWordPools == {<<"apple", "river">>, <<"apple", "river", "stone">>}

\* the arrays handed to secureshuffle on its own: elements may repeat
ShuffleInputs == UNION {[1..n -> {"a", "b", "c"}] : n \in 0..MaxLen}

\* the words of word_list.csv
Words == {"apple", "river", "stone"}

\* every non-empty pool over them: wordList is a Set, so no word is in it twice
NonEmptyPools ==
    {pool \in UNION {[1..n -> Words] : n \in 1..3} :
        \A i \in DOMAIN pool, j \in DOMAIN pool : i # j => pool[i] # pool[j]}

\* the nickname each of seven players types into joinSession
SevenNicknamesOf(c) ==
    CASE c = "p5" -> {NickEd}
      [] c = "p6" -> {NickFy}
      [] c = "p7" -> {NickGo}
      [] OTHER    -> NicknamesOf(c)

\* nicknames that differ in case and surrounding white space only, and others
VariantNicknamesOf(c) ==
    CASE c = "p1" -> {NickAl, NickEd}
      [] c = "p2" -> {NickAlVariant, NickKim}
      [] c = "p3" -> {NickAlLower, NickKimLower}
      [] OTHER    -> {}

\* blank nicknames and nicknames around the length the clients allow
OddNicknames == {NickBlank, NickOfLength(20), NickOfLength(21), NickAl}

\* the connections that create a session when two codes are drawn
CollidingCreateInputs == {<<"h", [duration |-> 5]>>, <<"p1", [duration |-> 10]>>}

\* what crypto.randomBytes(3) returns on two calls: the same triple twice, or two
EntropyOfTwo == {<<SessionBytes, SessionBytes>>, <<SessionBytes, OtherBytes>>}

---------------------------------------------------------------------------
(* JavaScript values and strings *)

\* a payload is a record; a field the client left out reads as undefined
Has(data, field) == field \in DOMAIN data

\* !data.duration: undefined and 0 are falsy
NoDuration(data) == ~Has(data, "duration") \/ data.duration = 0

\* !data.nickname: undefined and the empty string are falsy
NoNickname(data) == ~Has(data, "nickname") \/ data.nickname = << >>

\* !data.sessionId
NoSessionId(data) == ~Has(data, "sessionId") \/ data.sessionId = ""

\* the letters String.prototype.toLowerCase changes, and what it makes of them.
\* Strings are ASCII here: the letters outside A-Z that JavaScript lower-cases
\* cannot be written in a string of this module.
UpperLetters ==
    <<"A", "B", "C", "D", "E", "F", "G", "H", "I", "J", "K", "L", "M",
      "N", "O", "P", "Q", "R", "S", "T", "U", "V", "W", "X", "Y", "Z">>

LowerLetters ==
    <<"a", "b", "c", "d", "e", "f", "g", "h", "i", "j", "k", "l", "m",
      "n", "o", "p", "q", "r", "s", "t", "u", "v", "w", "x", "y", "z">>

\* String.prototype.toLowerCase, one character
LowerChar(ch) ==
    IF \E i \in DOMAIN UpperLetters : UpperLetters[i] = ch
    THEN LowerLetters[CHOOSE i \in DOMAIN UpperLetters : UpperLetters[i] = ch]
    ELSE ch

toLowerCase(str) == [i \in 1..Len(str) |-> LowerChar(str[i])]

\* the white space String.prototype.trim removes: tab, line feed, vertical tab, form
\* feed, carriage return and space, which are the ASCII characters of ECMAScript's
\* WhiteSpace and LineTerminator (the others, U+00A0 and beyond, cannot be written
\* in a string of this module)
IsSpace(ch) == ch \in {"\t", "\n", VerticalTab, "\f", "\r", " "}

\* a JavaScript string held as a string of this module, as the sequence of its characters
chars(str) == [i \in 1..Len(str) |-> SubSeq(str, i, i)]

\* and back
RECURSIVE fromChars(_)
fromChars(seq) == IF seq = << >> THEN "" ELSE Head(seq) \o fromChars(Tail(seq))

\* String.prototype.trim: drop the white space at both ends
RECURSIVE trimStart(_)
trimStart(str) ==
    IF str # << >> /\ IsSpace(Head(str)) THEN trimStart(Tail(str)) ELSE str

RECURSIVE trimEnd(_)
trimEnd(str) ==
    IF str # << >> /\ IsSpace(str[Len(str)])
    THEN trimEnd(SubSeq(str, 1, Len(str) - 1))
    ELSE str

trim(str) == trimEnd(trimStart(str))

\* nickname.toLowerCase().trim()
normalizedNickname(nickname) == trim(toLowerCase(nickname))

\* Buffer.toString('hex').toUpperCase()
HexDigits == <<"0", "1", "2", "3", "4", "5", "6", "7", "8", "9", "A", "B", "C", "D", "E", "F">>

hexByte(b) == HexDigits[(b \div 16) + 1] \o HexDigits[(b % 16) + 1]

RECURSIVE toHexUpper(_)
toHexUpper(bytes) ==
    IF bytes = << >> THEN "" ELSE hexByte(Head(bytes)) \o toHexUpper(Tail(bytes))

generateSessionId(bytes) == toHexUpper(bytes)

\* the session codes the clients address: the ones this run can generate
Codes == {generateSessionId(idSource[i]) : i \in DOMAIN idSource}

---------------------------------------------------------------------------
(* Random source *)

\* representatives of the 32-bit draw: one per residue class modulo max
UInt32Draws(max) == 0..(max - 1)

getSecureRandom(max, randomInt) == randomInt % max

\* an assignment of shuffled[j] to shuffled[i] only
SwapOneWay(arr, i, j) == [arr EXCEPT ![i] = arr[j]]

Swap(arr, i, j) == [arr EXCEPT ![i] = arr[j], ![j] = arr[i]]

\* the Fisher-Yates loop from 0-based index i down to 1; rnd[i] is the draw at index i
RECURSIVE shuffleFrom(_, _, _)
shuffleFrom(shuffled, i, rnd) ==
    IF i <= 0 THEN shuffled
    ELSE shuffleFrom(Swap(shuffled, i + 1, getSecureRandom(i + 1, rnd[i]) + 1), i - 1, rnd)

secureshuffle(array, rnd) == shuffleFrom(array, Len(array) - 1, rnd)

\* the draws one shuffle of n elements consumes
RECURSIVE drawsUpTo(_)
drawsUpTo(k) ==
    IF k <= 0 THEN {<< >>}
    ELSE {Append(rnd, r) : rnd \in drawsUpTo(k - 1), r \in UInt32Draws(k + 1)}

ShuffleDraws(n) == drawsUpTo(n - 1)

---------------------------------------------------------------------------
(* class GameSession *)

\* new GameSession(sessionId, duration, host).  currentWord and previousWord are
\* null or a word of the pool, which may be any string: null is << >> and the
\* word w is <<w>>.  players is the Map as a function and
\* playerKeys its keys in insertion order.  assignedSpies is history, not a field
\* of the class: the nicknames of the players the latest selectSpies drew.  gameTimer is null, "pending" (the
\* timeout it names is scheduled) or "stale" (it names a timeout that fired or was
\* cleared).  uncleared counts the timeouts scheduled before the one gameTimer
\* names and never cleared: nothing refers to them, and they fire first.
NewGameSession(sessionId, duration, host) ==
    [sessionId          |-> sessionId,
     duration           |-> duration,
     host               |-> host,
     players            |-> [c \in {} |-> Null],
     playerKeys         |-> << >>,
     allPlayerNicknames |-> {},
     spies              |-> {},
     spyNicknames       |-> {},
     assignedSpies      |-> {},
     currentWord        |-> << >>,
     previousWord       |-> << >>,
     phase              |-> "lobby",
     gameTimer          |-> Null,
     uncleared          |-> 0,
     gameStartTime      |-> Null,
     registrationOpen   |-> TRUE]

\* Array.from(this.players.keys()): the keys in insertion order
playerIds(session) == session.playerKeys

\* the insertion order after Map.prototype.set: a key the Map has keeps its place
KeysSet(keys, socketId) ==
    IF \E i \in DOMAIN keys : keys[i] = socketId THEN keys ELSE Append(keys, socketId)

\* the insertion order after Map.prototype.delete
KeysDelete(keys, gone) == SelectSeq(keys, LAMBDA c : c \notin gone)

\* Map.prototype.set and Map.prototype.delete on players
PlayersSet(players, socketId, player) ==
    [c \in (DOMAIN players) \cup {socketId} |-> IF c = socketId THEN player ELSE players[c]]

PlayersDelete(players, socketId) ==
    [c \in (DOMAIN players) \ {socketId} |-> players[c]]

\* the check of addPlayer without the test of registrationOpen
addPlayerErrorWhateverRegistration(session, nickname) ==
    IF \E c \in DOMAIN session.players :
           normalizedNickname(session.players[c].nickname) = normalizedNickname(nickname)
    THEN "Nickname already taken"
    ELSE Null

\* the check of addPlayer on the nicknames as typed
addPlayerErrorExact(session, nickname) ==
    IF ~session.registrationOpen THEN "Registration is closed"
    ELSE IF \E c \in DOMAIN session.players : session.players[c].nickname = nickname
         THEN "Nickname already taken"
         ELSE Null

\* the check of addPlayer without trim
addPlayerErrorUntrimmed(session, nickname) ==
    IF ~session.registrationOpen THEN "Registration is closed"
    ELSE IF \E c \in DOMAIN session.players :
                toLowerCase(session.players[c].nickname) = toLowerCase(nickname)
         THEN "Nickname already taken"
         ELSE Null

\* addPlayer: the message of the error it throws, or Null
addPlayerError(session, nickname) ==
    IF ~session.registrationOpen THEN "Registration is closed"
    ELSE IF \E c \in DOMAIN session.players :
                normalizedNickname(session.players[c].nickname) = normalizedNickname(nickname)
         THEN "Nickname already taken"
         ELSE Null

\* addPlayer when it does not throw
\* addPlayer that does not record the nickname
addPlayerUnrecorded(session, socketId, nickname) ==
    [session EXCEPT
        !.players = PlayersSet(@, socketId,
                        [socketId |-> socketId, nickname |-> nickname,
                         isHost |-> (socketId = session.host)]),
        !.playerKeys = KeysSet(@, socketId)]

addPlayer(session, socketId, nickname) ==
    [session EXCEPT
        !.players = PlayersSet(@, socketId,
                        [socketId |-> socketId, nickname |-> nickname,
                         isHost |-> (socketId = session.host)]),
        !.playerKeys = KeysSet(@, socketId),
        !.allPlayerNicknames = @ \cup {nickname}]

\* removePlayer that also forgets the nickname of a departing spy
removePlayerPruning(session, socketId) ==
    [session EXCEPT
        !.players = PlayersDelete(@, socketId),
        !.playerKeys = KeysDelete(@, {socketId}),
        !.spies = @ \ {socketId},
        !.spyNicknames = IF socketId \in DOMAIN session.players
                         THEN @ \ {session.players[socketId].nickname}
                         ELSE @]

\* removePlayer that leaves the spies set alone
removePlayerKeepingSpy(session, socketId) ==
    [session EXCEPT
        !.players = PlayersDelete(@, socketId),
        !.playerKeys = KeysDelete(@, {socketId})]

removePlayer(session, socketId) ==
    [session EXCEPT
        !.players = PlayersDelete(@, socketId),
        !.playerKeys = KeysDelete(@, {socketId}),
        !.spies = @ \ {socketId}]

getPlayerList(session) ==
    [i \in 1..Len(session.playerKeys) |->
        [nickname |-> session.players[session.playerKeys[i]].nickname,
         isHost   |-> session.players[session.playerKeys[i]].isHost]]

\* one spy whatever the number of players
spyCountAlwaysOne(n) == 1

spyCount(n) == IF n \div 3 > 1 THEN n \div 3 ELSE 1

\* shuffledPlayers[i] (0-based); past the end of the array it is undefined
At(array, i) == IF i + 1 \in DOMAIN array THEN array[i + 1] ELSE Undefined

\* selectSpies, with the draws its shuffle consumes
selectSpies(session, rnd) ==
    LET ids      == playerIds(session)
        count    == spyCount(Len(ids))
        shuffled == secureshuffle(ids, rnd)
        chosen   == {At(shuffled, i) : i \in 0..(count - 1)}
    IN  [session EXCEPT
            !.spies = chosen,
            !.assignedSpies = {session.players[c].nickname : c \in chosen \cap DOMAIN session.players},
            !.spyNicknames = {session.players[c].nickname : c \in chosen \cap DOMAIN session.players}]

\* a loop condition without the test of words.length
wordDrawAcceptedIfOther(session, words, randomInt) ==
    <<words[getSecureRandom(Len(words), randomInt) + 1]>> # session.previousWord

\* selectRandomWord: the draw on which the do-while loop exits
wordDrawAccepted(session, words, randomInt) ==
    LET selectedWord == words[getSecureRandom(Len(words), randomInt) + 1]
    IN  ~(<<selectedWord>> = session.previousWord /\ Len(words) > 1)

selectRandomWord(session, words, randomInt) ==
    [session EXCEPT
        !.previousWord = session.currentWord,
        !.currentWord = <<words[getSecureRandom(Len(words), randomInt) + 1]>>]

getSpyNicknames(session) == session.spyNicknames

\* the timeouts of a session that are scheduled and neither fired nor cleared
pendingTimers(session) ==
    session.uncleared + (IF session.gameTimer = "pending" THEN 1 ELSE 0)

\* clearTimeout(session.gameTimer), under if (session.gameTimer)
clearGameTimer(session) ==
    IF session.gameTimer = "pending" THEN [session EXCEPT !.gameTimer = "stale"] ELSE session

---------------------------------------------------------------------------
(* The registry Map and the events *)

registered(sessionId) == \E i \in DOMAIN gameSessions : gameSessions[i].sessionId = sessionId

indexOf(sessionId) == CHOOSE i \in DOMAIN gameSessions : gameSessions[i].sessionId = sessionId

\* gameSessions.get(sessionId), for a registered code
getSession(sessionId) == gameSessions[indexOf(sessionId)]

\* gameSessions.set: an existing key keeps its place and gets the new value
mapSet(map, session) ==
    IF \E i \in DOMAIN map : map[i].sessionId = session.sessionId
    THEN [i \in DOMAIN map |-> IF map[i].sessionId = session.sessionId THEN session ELSE map[i]]
    ELSE Append(map, session)

\* a delete that leaves the Map as it is
mapDeleteNothing(map, sessionId) == map

\* gameSessions.delete
mapDelete(map, sessionId) == SelectSeq(map, LAMBDA s : s.sessionId # sessionId)

\* a session object that left the registry stays alive while a timeout closes over it
keepIfPending(list, session) ==
    IF pendingTimers(session) > 0 THEN Append(list, session) ELSE list

\* socket.emit(event, data): to one socket
Emit(socketId, event, data) ==
    [event |-> event, to |-> <<"socket", socketId>>, data |-> data]

\* io.to(sessionId).emit(event, data): to the room named by the session code.  Who
\* is in a room is state of socket.io and is not modelled.
Broadcast(sessionId, event, data) ==
    [event |-> event, to |-> <<"room", sessionId>>, data |-> data]

\* the handler that ran last and the payload it was called with
Op(op, socketId, data) == [op |-> op, socket |-> socketId, hasData |-> TRUE, data |-> data]

\* the same for a handler called with no payload: its parameter data is undefined,
\* which is no object a client can send, so hasData is FALSE and tells it from
\* every payload; the field data then holds a record with none of the fields a
\* handler reads
OpBare(op, socketId) ==
    [op |-> op, socket |-> socketId, hasData |-> FALSE, data |-> [undefined |-> TRUE]]

\* socket.emit(event) and io.to(sessionId).emit(event): an event that carries no
\* payload has no field data
EmitOnly(socketId, event) == [event |-> event, to |-> <<"socket", socketId>>]

BroadcastOnly(sessionId, event) == [event |-> event, to |-> <<"room", sessionId>>]

\* the payload { sessionId }
ForSession(sessionId) == [sessionId |-> sessionId]

\* the payload of an error event is the message, a string, held here in a record
\* as every other payload is
ErrorData(message) == [message |-> message]

\* a handler that only answers its caller with an error
Reject(op, socketId, data, message) ==
    /\ outbox' = <<Emit(socketId, "error", ErrorData(message))>>
    /\ lastOp' = Op(op, socketId, data)
    /\ UNCHANGED <<frame, wordFile, gameSessions, detached, wordList, idSource, draws, sockets, running>>

\* the loop sending the word to every player, the spies too
roleEventsWordToAll(session) ==
    LET ids == SelectSeq(playerIds(session), LAMBDA c : c \in sockets)
    IN  [i \in 1..Len(ids) |->
            Emit(ids[i], "roleAssigned",
                 [role |-> IF ids[i] \in session.spies THEN "spy" ELSE "civilian",
                  word |-> session.currentWord[1]])]

\* the roleAssigned events of the loop over session.players, for the live sockets
roleEvents(session) ==
    LET ids == SelectSeq(playerIds(session), LAMBDA c : c \in sockets)
    IN  [i \in 1..Len(ids) |->
            IF ids[i] \in session.spies
            THEN Emit(ids[i], "roleAssigned", [role |-> "spy"])
            ELSE Emit(ids[i], "roleAssigned",
                      [role |-> "civilian", word |-> session.currentWord[1]])]

---------------------------------------------------------------------------
(* The socket.io handlers *)

\* A handler that reads its payload takes args, the arguments of the client's emit:
\* << >> when the client sent the event alone, <<data>> when it sent the payload
\* data.  The parameter data of the handler is args[1], undefined when there is none.

\* the guard without its comparison of session.host with socket.id
unauthorizedNoHostCheck(socketId, sessionId) == ~registered(sessionId)

\* the guard of the host commands: !session || session.host !== socket.id
unauthorized(socketId, sessionId) ==
    ~registered(sessionId) \/ getSession(sessionId).host # socketId

\* a minimum of three players
tooFewPlayersUnderThree(session) == Cardinality(DOMAIN session.players) < 3

\* session.players.size < 4
tooFewPlayers(session) == Cardinality(DOMAIN session.players) < 4

\* Date.now()
Now == "Date.now"

\* a handler that throws: nothing catches the exception and the process ends, with
\* the assignments made before the throw applied
Throw(op, socketId, data, session) ==
    /\ gameSessions' = [gameSessions EXCEPT ![indexOf(session.sessionId)] = session]
    /\ running' = FALSE
    /\ outbox' = << >>
    /\ lastOp' = Op(op, socketId, data)
    /\ UNCHANGED <<frame, wordFile, detached, wordList, idSource, draws, sockets>>

\* const { ... } = data, first statement of a handler, when the client sent no
\* payload: destructuring undefined throws a TypeError that nothing catches, and
\* the process ends before the handler has done anything
Uncaught(op, socketId) ==
    /\ running' = FALSE
    /\ outbox' = << >>
    /\ lastOp' = OpBare(op, socketId)
    /\ UNCHANGED <<frame, wordFile, gameSessions, detached, wordList, idSource, draws, sockets>>

\* const { sessionId } = data: undefined when the payload has no such field
sessionIdOf(data) == IF Has(data, "sessionId") THEN data.sessionId ELSE Undefined

\* !duration || duration < 5 || duration > 60
invalidDuration(data) ==
    NoDuration(data) \/ data.duration < 5 \/ data.duration > 60

CreateSession(socketId, args) ==
    LET data == args[1]
    IN
    /\ running
    /\ socketId \in sockets
    /\ IF args = << >>
       THEN Uncaught("createSession", socketId)
       ELSE IF invalidDuration(data)
       THEN Reject("createSession", socketId, data,
                   "Game duration must be between 5 and 60 minutes")
       ELSE LET sessionId == generateSessionId(idSource[draws + 1])
                session   == NewGameSession(sessionId, data.duration, socketId)
            IN  /\ draws < Len(idSource)
                /\ draws' = draws + 1
                /\ gameSessions' = mapSet(gameSessions, session)
                /\ detached' = IF registered(sessionId)
                               THEN keepIfPending(detached, getSession(sessionId))
                               ELSE detached
                /\ outbox' = <<Emit(socketId, "sessionCreated", [sessionId |-> sessionId])>>
                /\ lastOp' = Op("createSession", socketId, data)
                /\ UNCHANGED <<frame, wordFile, wordList, idSource, sockets, running>>

JoinSession(socketId, args) ==
    LET data == args[1]
    IN
    /\ running
    /\ socketId \in sockets
    /\ IF args = << >>
       THEN Uncaught("joinSession", socketId)
       ELSE IF NoSessionId(data) \/ NoNickname(data)
       THEN Reject("joinSession", socketId, data, "Session ID and nickname are required")
       ELSE IF ~registered(data.sessionId)
       THEN Reject("joinSession", socketId, data, "Session not found")
       ELSE IF addPlayerError(getSession(data.sessionId), data.nickname) # Null
       THEN Reject("joinSession", socketId, data,
                   addPlayerError(getSession(data.sessionId), data.nickname))
       ELSE LET session == addPlayer(getSession(data.sessionId), socketId, data.nickname)
            IN  /\ gameSessions' = [gameSessions EXCEPT ![indexOf(data.sessionId)] = session]
                /\ outbox' =
                     <<Emit(socketId, "joinedSession",
                            [sessionId |-> data.sessionId, nickname |-> data.nickname,
                             phase |-> session.phase]),
                       Broadcast(data.sessionId, "playersUpdated",
                            [players |-> getPlayerList(session),
                             count |-> Cardinality(DOMAIN session.players)])>>
                /\ lastOp' = Op("joinSession", socketId, data)
                /\ UNCHANGED <<frame, wordFile, detached, wordList, idSource, draws, sockets, running>>

\* a reclaim that leaves the host as it is
claimHostIgnored(session, socketId) == session

\* session.host = socket.id
claimHost(session, socketId) == [session EXCEPT !.host = socketId]

JoinSessionAsHost(socketId, args) ==
    LET data      == args[1]
        sessionId == sessionIdOf(data)
    IN
    /\ running
    /\ socketId \in sockets
    /\ IF args = << >>
       THEN Uncaught("joinSessionAsHost", socketId)
       ELSE IF ~registered(sessionId)
       THEN Reject("joinSessionAsHost", socketId, data, "Session not found")
       ELSE LET session == claimHost(getSession(sessionId), socketId)
            IN  /\ gameSessions' = [gameSessions EXCEPT ![indexOf(sessionId)] = session]
                /\ outbox' =
                     <<Emit(socketId, "hostJoinedSession",
                            [sessionId |-> sessionId, phase |-> session.phase,
                             players |-> getPlayerList(session),
                             playerCount |-> Cardinality(DOMAIN session.players)]),
                       Emit(socketId, "playersUpdated",
                            [players |-> getPlayerList(session),
                             count |-> Cardinality(DOMAIN session.players)])>>
                /\ lastOp' = Op("joinSessionAsHost", socketId, data)
                /\ UNCHANGED <<frame, wordFile, detached, wordList, idSource, draws, sockets, running>>

StartGame(socketId, args) ==
    LET data      == args[1]
        sessionId == sessionIdOf(data)
    IN
    /\ running
    /\ socketId \in sockets
    /\ IF args = << >>
       THEN Uncaught("startGame", socketId)
       ELSE IF unauthorized(socketId, sessionId)
       THEN Reject("startGame", socketId, data, "Unauthorized or session not found")
       ELSE IF tooFewPlayers(getSession(sessionId))
       THEN Reject("startGame", socketId, data, "Minimum 4 players required")
       ELSE \E rnd \in ShuffleDraws(Cardinality(DOMAIN getSession(sessionId).players)) :
            LET closed   == [getSession(sessionId) EXCEPT !.registrationOpen = FALSE]
                assigned == selectSpies(closed, rnd)
            IN  IF wordList = << >>
                THEN Throw("startGame", socketId, data, assigned)
                ELSE \E randomInt \in UInt32Draws(Len(wordList)) :
                     /\ wordDrawAccepted(assigned, wordList, randomInt)
                     /\ LET session == [selectRandomWord(assigned, wordList, randomInt)
                                            EXCEPT !.phase = "game"]
                        IN  /\ gameSessions' = [gameSessions EXCEPT ![indexOf(sessionId)] = session]
                            /\ outbox' = roleEvents(session) \o
                                 <<Broadcast(sessionId, "gameStarted",
                                             [duration |-> session.duration * 60])>>
                            /\ lastOp' = Op("startGame", socketId, data)
                            /\ UNCHANGED <<frame, wordFile, detached, wordList, idSource, draws, sockets, running>>

\* a check that refuses the lobby only
invalidStateLobbyOnly(session) == session.phase = "lobby"

\* session.phase !== 'game'
invalidState(session) == session.phase # "game"

StartTimer(socketId, args) ==
    LET data      == args[1]
        sessionId == sessionIdOf(data)
    IN
    /\ running
    /\ socketId \in sockets
    /\ IF args = << >>
       THEN Uncaught("startTimer", socketId)
       ELSE IF unauthorized(socketId, sessionId) \/ invalidState(getSession(sessionId))
       THEN Reject("startTimer", socketId, data, "Unauthorized or invalid session state")
       ELSE LET old     == getSession(sessionId)
                session == [old EXCEPT
                               !.gameStartTime = Now,
                               !.uncleared = pendingTimers(old),
                               !.gameTimer = "pending"]
            IN  /\ session.uncleared <= MaxUncleared
                /\ gameSessions' = [gameSessions EXCEPT ![indexOf(sessionId)] = session]
                /\ outbox' = <<Broadcast(sessionId, "timerStarted",
                                         [duration |-> session.duration * 60,
                                          startTime |-> session.gameStartTime])>>
                /\ lastOp' = Op("startTimer", socketId, data)
                /\ UNCHANGED <<frame, wordFile, detached, wordList, idSource, draws, sockets, running>>

\* the broadcasts of newRound with gameStarted first
roundBroadcastsReversed(session) ==
    <<Broadcast(session.sessionId, "gameStarted", [duration |-> session.duration * 60]),
      BroadcastOnly(session.sessionId, "newRoundStarted")>>

\* the two broadcasts that end newRound
roundBroadcasts(session) ==
    <<BroadcastOnly(session.sessionId, "newRoundStarted"),
      Broadcast(session.sessionId, "gameStarted", [duration |-> session.duration * 60])>>

NewRound(socketId, args) ==
    LET data      == args[1]
        sessionId == sessionIdOf(data)
    IN
    /\ running
    /\ socketId \in sockets
    /\ IF args = << >>
       THEN Uncaught("newRound", socketId)
       ELSE IF unauthorized(socketId, sessionId)
       THEN Reject("newRound", socketId, data, "Unauthorized or session not found")
       ELSE \E rnd \in ShuffleDraws(Cardinality(DOMAIN getSession(sessionId).players)) :
            LET reset    == [clearGameTimer(getSession(sessionId)) EXCEPT !.phase = "game"]
                assigned == selectSpies(reset, rnd)
            IN  IF wordList = << >>
                THEN Throw("newRound", socketId, data, assigned)
                ELSE \E randomInt \in UInt32Draws(Len(wordList)) :
                     /\ wordDrawAccepted(assigned, wordList, randomInt)
                     /\ LET drawn   == [selectRandomWord(assigned, wordList, randomInt) EXCEPT
                                           !.gameStartTime = Null,
                                           !.registrationOpen = FALSE]
                            gone    == (DOMAIN drawn.players) \ sockets
                            session == [drawn EXCEPT
                                           !.players = [c \in (DOMAIN drawn.players) \ gone |->
                                                            drawn.players[c]],
                                           !.playerKeys = KeysDelete(@, gone),
                                           !.spies = @ \ gone]
                        IN  /\ gameSessions' = [gameSessions EXCEPT ![indexOf(sessionId)] = session]
                            /\ outbox' = roleEvents(drawn) \o roundBroadcasts(session)
                            /\ lastOp' = Op("newRound", socketId, data)
                            /\ UNCHANGED <<frame, wordFile, detached, wordList, idSource, draws, sockets, running>>

\* abortGame and closeGame differ in the event they broadcast (and in abortGame
\* taking the players' sockets out of the room)
EndSession(op, event, socketId, args) ==
    LET data      == args[1]
        sessionId == sessionIdOf(data)
    IN
    /\ running
    /\ socketId \in sockets
    /\ IF args = << >>
       THEN Uncaught(op, socketId)
       ELSE IF unauthorized(socketId, sessionId)
       THEN Reject(op, socketId, data, "Unauthorized or session not found")
       ELSE LET session == clearGameTimer(getSession(sessionId))
            IN  /\ outbox' = <<BroadcastOnly(sessionId, event)>>
                /\ gameSessions' = mapDelete(gameSessions, sessionId)
                /\ detached' = keepIfPending(detached, session)
                /\ lastOp' = Op(op, socketId, data)
                /\ UNCHANGED <<frame, wordFile, wordList, idSource, draws, sockets, running>>

AbortGame(socketId, args) == EndSession("abortGame", "gameAborted", socketId, args)

CloseGame(socketId, args) == EndSession("closeGame", "gameClosed", socketId, args)

\* the sessions the loop of the disconnect handler stops at: the first, in the
\* order of the registry, whose players has the socket
firstWith(socketId) ==
    {i \in DOMAIN gameSessions :
        /\ socketId \in DOMAIN gameSessions[i].players
        /\ \A j \in 1..(i - 1) : socketId \notin DOMAIN gameSessions[j].players}

\* socket.io has removed the socket from io.sockets.sockets when the handler runs
Disconnect(socketId) ==
    /\ running
    /\ socketId \in sockets
    /\ sockets' = sockets \ {socketId}
    /\ lastOp' = OpBare("disconnect", socketId)
    /\ IF firstWith(socketId) = {}
       THEN /\ outbox' = << >>
            /\ UNCHANGED <<frame, wordFile, gameSessions, detached, wordList, idSource, draws, running>>
       ELSE LET i       == CHOOSE k \in firstWith(socketId) : TRUE
                removed == removePlayer(gameSessions[i], socketId)
            IN  IF removed.host = socketId
                THEN /\ outbox' = <<BroadcastOnly(removed.sessionId, "gameAborted")>>
                     /\ gameSessions' = mapDelete(gameSessions, removed.sessionId)
                     /\ detached' = keepIfPending(detached, clearGameTimer(removed))
                     /\ UNCHANGED <<frame, wordFile, wordList, idSource, draws, running>>
                ELSE /\ outbox' = <<Broadcast(removed.sessionId, "playersUpdated",
                                        [players |-> getPlayerList(removed),
                                         count |-> Cardinality(DOMAIN removed.players)])>>
                     /\ gameSessions' = [gameSessions EXCEPT ![i] = removed]
                     /\ UNCHANGED <<frame, wordFile, detached, wordList, idSource, draws, running>>

\* a callback that takes the session back to the lobby
timerCallbackToLobby(session) ==
    [session EXCEPT
        !.phase = "lobby",
        !.uncleared = IF @ > 0 THEN @ - 1 ELSE @,
        !.gameTimer = IF session.uncleared > 0 THEN @ ELSE "stale"]

\* the callback of setTimeout: the oldest scheduled timeout of the session fires
timerCallback(session) ==
    [session EXCEPT
        !.phase = "ended",
        !.uncleared = IF @ > 0 THEN @ - 1 ELSE @,
        !.gameTimer = IF session.uncleared > 0 THEN @ ELSE "stale"]

\* a gameEnded that names no spy
gameEndedNamingNobody(session) ==
    Broadcast(session.sessionId, "gameEnded", [spies |-> {}])

gameEnded(session) ==
    Broadcast(session.sessionId, "gameEnded",
              [spies |-> getSpyNicknames(session)])

\* a timeout of a registered session fires
TimerFires(i) ==
    /\ running
    /\ i \in DOMAIN gameSessions
    /\ pendingTimers(gameSessions[i]) > 0
    /\ gameSessions' = [gameSessions EXCEPT ![i] = timerCallback(@)]
    /\ outbox' = <<gameEnded(timerCallback(gameSessions[i]))>>
    /\ lastOp' = Op("timeout", Null, ForSession(gameSessions[i].sessionId))
    /\ UNCHANGED <<frame, wordFile, detached, wordList, idSource, draws, sockets, running>>

\* a timeout of a session object that has left the registry fires
TimerFiresDetached(k) ==
    /\ running
    /\ k \in DOMAIN detached
    /\ LET session == timerCallback(detached[k])
       IN  /\ detached' = IF pendingTimers(session) > 0
                          THEN [detached EXCEPT ![k] = session]
                          ELSE SubSeq(detached, 1, k - 1) \o SubSeq(detached, k + 1, Len(detached))
           /\ outbox' = <<gameEnded(session)>>
           /\ lastOp' = Op("timeoutDetached", Null, ForSession(session.sessionId))
    /\ UNCHANGED <<frame, wordFile, gameSessions, wordList, idSource, draws, sockets, running>>

\* The HTTP routes: POST /api/add-word is the one that writes state.  The GET
\* routes, /events and /health-check among them, read it and change none of it, so
\* no action stands for them.

\* res.status(status).json(body): the answer to an HTTP request
Respond(status, body) ==
    [event |-> "response", to |-> <<"http", "client">>,
     data |-> [status |-> status, json |-> body]]

\* !word || !word.trim(): the body has no word, or one that is empty or all blank
NoWord(body) ==
    \/ ~Has(body, "word")
    \/ body.word = ""
    \/ trim(chars(body.word)) = << >>

\* existingWords.includes(trimmedWord.toLowerCase())
includesWord(words, trimmedWord) ==
    \E i \in DOMAIN words :
        toLowerCase(chars(words[i])) = toLowerCase(chars(trimmedWord))

\* app.post('/api/add-word'): body is req.body, its word a string when it has one
AddWord(body) ==
    /\ running
    /\ lastOp' = Op("addWord", Null, body)
    /\ IF NoWord(body)
       THEN /\ outbox' = <<Respond(400, [error |-> "Word is required"])>>
            /\ UNCHANGED <<wordList, wordFile>>
       ELSE LET trimmedWord == fromChars(trim(chars(body.word)))
            IN  IF includesWord(wordList, trimmedWord)
                THEN /\ outbox' = <<Respond(409, [error |-> "Word already in list"])>>
                     /\ UNCHANGED <<wordList, wordFile>>
                ELSE /\ wordList' = Append(wordList, trimmedWord)
                     /\ wordFile' = Append(wordFile, "\n" \o trimmedWord \o ",")
                     /\ outbox' = <<Respond(200, [success |-> TRUE,
                                                  message |-> "Word added successfully"])>>
    /\ UNCHANGED <<frame, gameSessions, detached, idSource, draws, sockets, running>>

\* what the handler of a keep-alive event emits to its caller: pong carries no
\* payload, the acknowledgements carry the time, window-blur and page-freeze only log
keepAliveAnswer(socketId, event) ==
    CASE event = "ping"             -> <<EmitOnly(socketId, "pong")>>
      [] event = "keep-alive"       -> <<Emit(socketId, "keep-alive-ack", [timestamp |-> Now])>>
      [] event = "background-mode"  -> <<Emit(socketId, "background-ack", [timestamp |-> Now])>>
      [] event = "touch-keep-alive" -> <<Emit(socketId, "touch-ack", [timestamp |-> Now])>>
      [] OTHER                      -> << >>

\* socket.on('ping' | 'keep-alive' | 'background-mode' | 'window-blur' |
\* 'page-freeze' | 'touch-keep-alive')
KeepAlive(socketId, event) ==
    /\ running
    /\ socketId \in sockets
    /\ outbox' = keepAliveAnswer(socketId, event)
    /\ lastOp' = OpBare(event, socketId)
    /\ UNCHANGED <<frame, wordFile, gameSessions, detached, wordList, idSource, draws, sockets, running>>

\* socket.on('foreground-mode'): args is what the client sent, data the payload.
\* data.sessionId of no payload throws a TypeError that nothing catches.  The
\* field gameState of the answer reads session.gameState, which no code sets, so it
\* is undefined and left out when the answer is serialised.
ForegroundMode(socketId, args) ==
    LET data == args[1]
    IN
    /\ running
    /\ socketId \in sockets
    /\ IF args = << >>
       THEN /\ running' = FALSE
            /\ outbox' = << >>
            /\ lastOp' = OpBare("foreground-mode", socketId)
       ELSE /\ running' = running
            /\ lastOp' = Op("foreground-mode", socketId, data)
            /\ outbox' =
                 IF /\ Has(data, "sessionId")
                    /\ registered(data.sessionId)
                    /\ socketId \in DOMAIN getSession(data.sessionId).players
                 THEN <<Emit(socketId, "session-status",
                             [status |-> "connected",
                              playerCount |-> Cardinality(DOMAIN getSession(data.sessionId).players),
                              timestamp |-> Now])>>
                 ELSE << >>
    /\ UNCHANGED <<frame, wordFile, gameSessions, detached, wordList, idSource, draws, sockets>>


---------------------------------------------------------------------------
(* The specification *)

\* the server after startup: loadWords has filled wordList, nothing is registered
Started(pools, entropy) ==
    /\ gameSessions = << >>
    /\ detached = << >>
    /\ wordList \in pools
    /\ idSource \in entropy
    /\ draws = 0
    /\ sockets = Conns
    /\ outbox = << >>
    /\ lastOp = OpBare("none", Null)
    /\ running = TRUE
    /\ frame = NoFrame
    /\ wordFile = << >>

\* word_list.csv holds no word at startup: the words of a run are the ones posted
\* to /api/add-word
Init == Started({<< >>}, {<<SessionBytes>>})

Create == \E in \in CreateInputs : CreateSession(in[1], <<in[2]>>)

\* the players join in this order, the ones that are still connected
JoinAfter(c) ==
    CASE c = "p2" -> {"p1"}
      [] c = "p3" -> {"p1", "p2"}
      [] c = "p4" -> {"p1", "p2", "p3"}
      [] OTHER    -> {}

\* a player sends joinSession until it is in the roster
Join ==
    \E c \in Conns, sessionId \in Codes :
        \E nickname \in NicknamesOf(c) :
            /\ registered(sessionId) =>
                  /\ (JoinAfter(c) \cap sockets) \subseteq DOMAIN getSession(sessionId).players
                  /\ c \notin DOMAIN getSession(sessionId).players
            /\ JoinSession(c, <<[sessionId |-> sessionId, nickname |-> nickname]>>)

Reclaim == \E c \in Reclaimers, sessionId \in Codes : JoinSessionAsHost(c, <<ForSession(sessionId)>>)

Start == \E c \in Commanders, sessionId \in Codes : StartGame(c, <<ForSession(sessionId)>>)

Timer == \E c \in Commanders, sessionId \in Codes : StartTimer(c, <<ForSession(sessionId)>>)

Round == \E c \in Commanders, sessionId \in Codes : NewRound(c, <<ForSession(sessionId)>>)

Abort == \E c \in Commanders, sessionId \in Codes : AbortGame(c, <<ForSession(sessionId)>>)

Close == \E c \in Commanders, sessionId \in Codes : CloseGame(c, <<ForSession(sessionId)>>)

Leave == \E c \in Leavers : Disconnect(c)

Elapse == \E i \in DOMAIN gameSessions : TimerFires(i)

ElapseDetached == \E k \in DOMAIN detached : TimerFiresDetached(k)

\* a client posts a word to /api/add-word
Add == \E body \in AddWordInputs : AddWord(body)

\* a connection sends one of the keep-alive events
Keep == \E c \in Pingers, event \in KeepAliveEvents : KeepAlive(c, event)

\* the arguments of foreground-mode: none, a payload without a session code, one
\* with a code
ForegroundInputs ==
    {<< >>, <<[other |-> 0]>>} \cup {<<ForSession(sessionId)>> : sessionId \in Codes}

\* a connection reports that its page is in the foreground again
Foreground == \E c \in Pingers, args \in ForegroundInputs : ForegroundMode(c, args)

Next ==
    \/ Create \/ Join \/ Reclaim \/ Start \/ Timer \/ Round
    \/ Abort \/ Close \/ Leave \/ Elapse \/ ElapseDetached
    \/ Add \/ Keep \/ Foreground

Spec == Init /\ [][Next]_vars

---------------------------------------------------------------------------
(* Role assignment over rosters of every size up to MaxRoster *)

\* the server started with a word_list.csv of one word
InitLoaded == Started({<<"apple">>}, {<<SessionBytes>>})

CreateByHost == CreateSession("h", <<[duration |-> 5]>>)

\* the players join one after the other
JoinInOrder ==
    \E k \in 2..(MaxRoster + 1), sessionId \in Codes :
        \E nickname \in SevenNicknamesOf(ConnOrder[k]) :
            /\ registered(sessionId)
            /\ DOMAIN getSession(sessionId).players = {ConnOrder[j] : j \in 2..(k - 1)}
            /\ JoinSession(ConnOrder[k], <<[sessionId |-> sessionId, nickname |-> nickname]>>)

NextAssign == CreateByHost \/ JoinInOrder \/ Start

SpecAssign == InitLoaded /\ [][NextAssign]_vars

---------------------------------------------------------------------------
(* Rounds over a pool of several words *)

InitWords == Started(LargerWordPools, {<<SessionBytes>>})

NextWords == CreateByHost \/ Join \/ Start \/ Round

SpecWords == InitWords /\ [][NextWords]_vars

---------------------------------------------------------------------------
(* Two sessions created in one run *)

InitCollide == Started({<<"apple">>}, EntropyOfTwo)

CreateTwo == \E in \in CollidingCreateInputs : CreateSession(in[1], <<in[2]>>)

\* one player joins, so that the roster tells the sessions apart
JoinFirst ==
    \E sessionId \in Codes :
        /\ registered(sessionId) => "p1" \notin DOMAIN getSession(sessionId).players
        /\ JoinSession("p1", <<[sessionId |-> sessionId, nickname |-> NickAl]>>)

NextCollide == CreateTwo \/ JoinFirst \/ Round \/ Timer \/ Elapse \/ ElapseDetached

SpecCollide == InitCollide /\ [][NextCollide]_vars

---------------------------------------------------------------------------
(* Joins under nicknames that differ in case and white space *)

\* a connection may send joinSession again while it is in the roster
JoinAgain ==
    \E c \in Conns, sessionId \in Codes :
        \E nickname \in VariantNicknamesOf(c) :
            JoinSession(c, <<[sessionId |-> sessionId, nickname |-> nickname]>>)

LeavePlayer == \E c \in {"p1", "p2"} : Disconnect(c)

NextNick == CreateByHost \/ JoinAgain \/ LeavePlayer \/ Round

SpecNick == InitLoaded /\ [][NextNick]_vars

---------------------------------------------------------------------------
(* createSession with every duration *)

InitDuration == Started({<<"apple">>}, EntropyOfTwo)

CreateWithDuration == \E args \in DurationInputs : CreateSession("h", args)

NextDuration == CreateWithDuration

SpecDuration == InitDuration /\ [][NextDuration]_vars

---------------------------------------------------------------------------
(* Joins under blank and long nicknames *)

JoinOdd ==
    \E c \in {"p1", "p2"}, sessionId \in Codes, nickname \in OddNicknames :
        JoinSession(c, <<[sessionId |-> sessionId, nickname |-> nickname]>>)

\* a command that names no session, sent with nothing or with a payload without
\* sessionId: joinSession by a player, the others by the host
CommandOdd ==
    \E args \in {<< >>, <<[other |-> 0]>>} :
        \/ JoinSession("p1", args)
        \/ JoinSessionAsHost("h", args)
        \/ StartGame("h", args)
        \/ StartTimer("h", args)
        \/ NewRound("h", args)
        \/ AbortGame("h", args)
        \/ CloseGame("h", args)

NextOdd == CreateByHost \/ JoinOdd \/ LeavePlayer \/ CommandOdd

SpecOdd == InitLoaded /\ [][NextOdd]_vars

---------------------------------------------------------------------------
(* The event loop runs a timeout that is due *)

NextLive ==
    \/ CreateByHost \/ Join \/ Start \/ Timer \/ Round
    \/ Abort \/ Leave \/ Elapse \/ ElapseDetached

\* a timeout that stays scheduled fires: Node runs the callback once the delay is over
SpecLive == InitLoaded /\ [][NextLive]_vars /\ WF_gameSessions(Elapse)

---------------------------------------------------------------------------
(* Connections that join more than one session, and leave *)

\* joinSession does not ask whether the socket is in the roster of another session
JoinSeveral ==
    \E c \in {"p1", "p2"}, sessionId \in Codes :
        \E nickname \in NicknamesOf(c) :
            /\ registered(sessionId) => c \notin DOMAIN getSession(sessionId).players
            /\ JoinSession(c, <<[sessionId |-> sessionId, nickname |-> nickname]>>)

NextSeveral == CreateTwo \/ JoinSeveral \/ Round \/ LeavePlayer

SpecSeveral == InitCollide /\ [][NextSeveral]_vars

---------------------------------------------------------------------------
(* selectRandomWord, one iteration of its do-while loop at a time *)

\* what previousWord and currentWord hold when selectRandomWord is called: null or
\* a word
WordValues == {<< >>} \cup {<<word>> : word \in Words}

\* the call this.selectRandomWord() at its entry: words = Array.from(wordList).
\* selectedWord is declared without a value, << >>, and holds <<w>> once w is drawn
selectRandomWordEntry(previousWord, currentWord, words) ==
    [fn |-> "selectRandomWord", pc |-> "draw",
     previousWord |-> previousWord, currentWord |-> currentWord,
     excluded |-> previousWord, words |-> words,
     selectedWord |-> << >>, randomInt |-> 0, drawn |-> 0]

InitSelect ==
    /\ gameSessions = << >>
    /\ detached = << >>
    /\ wordList \in NonEmptyPools
    /\ idSource = <<SessionBytes>>
    /\ draws = 0
    /\ sockets = Conns
    /\ outbox = << >>
    /\ lastOp = OpBare("none", Null)
    /\ running = TRUE
    /\ wordFile = << >>
    /\ frame \in {selectRandomWordEntry(previousWord, currentWord, wordList) :
                     previousWord \in WordValues, currentWord \in WordValues}

\* the body of the loop: randomIndex = getSecureRandom(words.length); selectedWord = words[randomIndex]
DrawWord ==
    /\ frame.fn = "selectRandomWord"
    /\ frame.pc = "draw"
    /\ \E randomInt \in UInt32Draws(Len(frame.words)) :
          frame' = [frame EXCEPT
                       !.randomInt = randomInt,
                       !.selectedWord = <<frame.words[getSecureRandom(Len(frame.words), randomInt) + 1]>>,
                       !.drawn = IF @ < MaxDraws THEN @ + 1 ELSE @,
                       !.pc = "test"]
    /\ UNCHANGED <<gameSessions, detached, wordList, wordFile, idSource, draws, sockets, outbox, lastOp,
                 running>>

\* a draw of a word that is not the excluded one
DrawOtherWord == DrawWord /\ frame'.selectedWord # frame.excluded

\* the loop condition, and the assignments after the loop when it is false
TestWord ==
    /\ frame.fn = "selectRandomWord"
    /\ frame.pc = "test"
    /\ frame' = IF wordDrawAccepted(frame, frame.words, frame.randomInt)
                THEN [selectRandomWord(frame, frame.words, frame.randomInt) EXCEPT !.pc = "done"]
                ELSE [frame EXCEPT !.pc = "draw"]
    /\ UNCHANGED <<gameSessions, detached, wordList, wordFile, idSource, draws, sockets, outbox, lastOp,
                 running>>

NextSelect == DrawWord \/ TestWord

\* the loop runs on, and the random source is fair: a word that is drawn again and
\* again is not the excluded one every time when the pool holds another
SpecSelect ==
    /\ InitSelect /\ [][NextSelect]_vars
    /\ WF_vars(DrawWord) /\ WF_vars(TestWord) /\ SF_vars(DrawOtherWord)

---------------------------------------------------------------------------
(* secureshuffle on its own *)

\* the call secureshuffle(array) at its entry; input keeps what the caller passed
secureshuffleEntry(array) ==
    [fn |-> "secureshuffle", pc |-> "call", input |-> array, array |-> array,
     shuffled |-> << >>]

InitShuffle ==
    /\ gameSessions = << >>
    /\ detached = << >>
    /\ wordList = <<"apple">>
    /\ idSource = <<SessionBytes>>
    /\ draws = 0
    /\ sockets = Conns
    /\ outbox = << >>
    /\ lastOp = OpBare("none", Null)
    /\ running = TRUE
    /\ wordFile = << >>
    /\ frame \in {secureshuffleEntry(array) : array \in ShuffleInputs}

\* the function runs on a copy of array, with whatever getSecureRandom draws
Shuffle ==
    /\ frame.fn = "secureshuffle"
    /\ frame.pc = "call"
    /\ \E rnd \in ShuffleDraws(Len(frame.array)) :
          frame' = [frame EXCEPT !.shuffled = secureshuffle(frame.array, rnd), !.pc = "done"]
    /\ UNCHANGED <<gameSessions, detached, wordList, wordFile, idSource, draws, sockets, outbox, lastOp,
                 running>>

NextShuffle == Shuffle

SpecShuffle == InitShuffle /\ [][NextShuffle]_vars

---------------------------------------------------------------------------
(* Properties *)

HostCommands == {"startGame", "startTimer", "newRound", "abortGame", "closeGame"}

\* the handler that ran last answered its caller with one error and nothing else
RejectedIn(box, socketId) ==
    /\ Len(box) = 1
    /\ box[1].event = "error"
    /\ box[1].to = <<"socket", socketId>>

\* C1: a host command sent by a connection that is not the host of the session it
\* names is answered with an error to that connection only and changes neither the
\* registry nor any field of any session.
C1_NonHostCommandRejected ==
    [][(/\ lastOp'.op \in HostCommands
        /\ registered(lastOp'.data.sessionId)
        /\ getSession(lastOp'.data.sessionId).host # lastOp'.socket)
       => (/\ gameSessions' = gameSessions
           /\ detached' = detached
           /\ RejectedIn(outbox', lastOp'.socket))]_vars

C1_Witness ==
    /\ lastOp.op = "closeGame"
    /\ registered(lastOp.data.sessionId)
    /\ getSession(lastOp.data.sessionId).host # lastOp.socket
    /\ getSession(lastOp.data.sessionId).phase = "game"
    /\ RejectedIn(outbox, lastOp.socket)

\* the nicknames in the roster of a session
rosterNicknames(session) == {session.players[c].nickname : c \in DOMAIN session.players}

\* C2: the gameEnded event a timeout of a session broadcasts lists every nickname
\* drawn as a spy at the latest role assignment of that session, whoever has
\* disconnected since.
C2_GameEndedListsAssignedSpies ==
    lastOp.op = "timeout" =>
        /\ Len(outbox) = 1
        /\ outbox[1].event = "gameEnded"
        /\ outbox[1].to = <<"room", lastOp.data.sessionId>>
        /\ getSession(lastOp.data.sessionId).assignedSpies \subseteq outbox[1].data.spies

C2_Witness ==
    /\ lastOp.op = "timeout"
    /\ \E n \in getSession(lastOp.data.sessionId).assignedSpies :
          /\ n \notin rosterNicknames(getSession(lastOp.data.sessionId))
          /\ n \in outbox[1].data.spies

\* the startGame that ran last assigned the roles
StartedGame ==
    /\ lastOp.op = "startGame"
    /\ outbox # << >>
    /\ outbox[Len(outbox)].event = "gameStarted"

\* C3: right after a successful startGame the number of spies is
\* max(floor(n / 3), 1), n the size of the roster (at least 4), and every spy is in
\* the roster.
C3_SpyCountAfterStartGame ==
    StartedGame =>
        LET session == getSession(lastOp.data.sessionId)
            n       == Cardinality(DOMAIN session.players)
        IN  /\ n >= 4
            /\ Cardinality(session.spies) = (IF n \div 3 >= 1 THEN n \div 3 ELSE 1)
            /\ session.spies \subseteq DOMAIN session.players

C3_Witness ==
    /\ StartedGame
    /\ Cardinality(DOMAIN getSession(lastOp.data.sessionId).players) = 6
    /\ Cardinality(getSession(lastOp.data.sessionId).spies) = 2
    /\ getSession(lastOp.data.sessionId).spies \subseteq DOMAIN getSession(lastOp.data.sessionId).players

\* C4 (as claimed): while a session is in phase game, every element of spies is a
\* key of players.
C4_SpiesInRoster ==
    \A i \in DOMAIN gameSessions :
        gameSessions[i].phase = "game" =>
            gameSessions[i].spies \subseteq DOMAIN gameSessions[i].players

\* C5 (as claimed): with more than one word in the pool, from the second role
\* assignment of a session on the word of the round differs from the word of the
\* round before, which previousWord holds.
C5_ConsecutiveWordsDiffer ==
    \A i \in DOMAIN gameSessions :
        (Len(wordList) > 1 /\ gameSessions[i].previousWord # << >>) =>
            gameSessions[i].currentWord # gameSessions[i].previousWord

\* C6 (as claimed): a session never has more than one timeout that is scheduled and
\* neither fired nor cleared.
C6_AtMostOneTimer ==
    \A i \in DOMAIN gameSessions : pendingTimers(gameSessions[i]) <= 1

\* C7 (as claimed): createSession replaces no entry of the registry: every session
\* registered before it is registered after it, with all its fields.
C7_CreateNeverOverwrites ==
    [][lastOp'.op = "createSession" =>
        \A i \in DOMAIN gameSessions :
            \E j \in DOMAIN gameSessions' : gameSessions'[j] = gameSessions[i]]_vars

\* C8 (as claimed): when the host connection of a session disconnects, the session
\* leaves the registry, its timeout is cleared and gameAborted is broadcast, whether
\* or not the host has a roster entry.
C8_HostDisconnectAborts ==
    [][lastOp'.op = "disconnect" =>
        \A i \in DOMAIN gameSessions :
            gameSessions[i].host = lastOp'.socket =>
                /\ \A j \in DOMAIN gameSessions' :
                      gameSessions'[j].sessionId # gameSessions[i].sessionId
                /\ Len(outbox') = 1
                /\ outbox'[1].event = "gameAborted"
                /\ outbox'[1].to = <<"room", gameSessions[i].sessionId>>]_vars

\* the roster has a nickname that equals the given one but for case and white space
activeDuplicate(session, nickname) ==
    \E c \in DOMAIN session.players :
        trim(toLowerCase(session.players[c].nickname)) = trim(toLowerCase(nickname))

\* a nickname the session has known equals the given one but for case and white
\* space; when no roster entry does, it is the nickname of a member that has left
\* (or of one that has joined again under another nickname)
knownNickname(session, nickname) ==
    \E n \in session.allPlayerNicknames :
        trim(toLowerCase(n)) = trim(toLowerCase(nickname))

\* the step is a joinSession naming a registered session, with a nickname
JoinStep ==
    /\ lastOp'.op = "joinSession"
    /\ Has(lastOp'.data, "sessionId")
    /\ registered(lastOp'.data.sessionId)

\* the joinSession added its caller to the roster under the nickname it sent
Joined(before, after, socketId, nickname) ==
    /\ DOMAIN after.players = DOMAIN before.players \cup {socketId}
    /\ after.players[socketId].nickname = nickname
    /\ after.allPlayerNicknames = before.allPlayerNicknames \cup {nickname}
    /\ \A c \in DOMAIN before.players \ {socketId} : after.players[c] = before.players[c]

\* C9 (as claimed): a joinSession whose nickname equals that of a roster member but
\* for case fails with an error and changes nothing; a joinSession whose nickname
\* matches a member that has left only succeeds and adds its caller to the roster.
C9_JoinByNickname ==
    [][JoinStep =>
        LET before == getSession(lastOp'.data.sessionId)
        IN  IF activeDuplicate(before, lastOp'.data.nickname)
            THEN /\ RejectedIn(outbox', lastOp'.socket)
                 /\ gameSessions' = gameSessions
            ELSE knownNickname(before, lastOp'.data.nickname) =>
                 /\ outbox'[1].event = "joinedSession"
                 /\ Joined(before, gameSessions'[indexOf(lastOp'.data.sessionId)],
                           lastOp'.socket, lastOp'.data.nickname)]_vars

\* C9 (amended): the same, the second half for a session whose registration is
\* open; once registration is closed every joinSession fails and changes nothing.
C9_JoinByNicknameWhileOpen ==
    [][JoinStep =>
        LET before == getSession(lastOp'.data.sessionId)
        IN  IF activeDuplicate(before, lastOp'.data.nickname) \/ ~before.registrationOpen
            THEN /\ RejectedIn(outbox', lastOp'.socket)
                 /\ gameSessions' = gameSessions
            ELSE knownNickname(before, lastOp'.data.nickname) =>
                 /\ outbox'[1].event = "joinedSession"
                 /\ Joined(before, gameSessions'[indexOf(lastOp'.data.sessionId)],
                           lastOp'.socket, lastOp'.data.nickname)]_vars

\* a join succeeded under a nickname that a member who has left had typed
\* differently
C9_Witness ==
    /\ lastOp.op = "joinSession"
    /\ outbox[1].event = "joinedSession"
    /\ LET session == getSession(lastOp.data.sessionId)
       IN  /\ lastOp.socket \in DOMAIN session.players
           /\ \E n \in session.allPlayerNicknames \ rosterNicknames(session) :
                  trim(toLowerCase(n)) = trim(toLowerCase(lastOp.data.nickname))

\* C10: no two entries of a roster have nicknames that are equal after trimming
\* and lower-casing.
C10_RosterNicknamesDistinct ==
    \A i \in DOMAIN gameSessions :
        \A c, d \in DOMAIN gameSessions[i].players :
            c # d => trim(toLowerCase(gameSessions[i].players[c].nickname))
                        # trim(toLowerCase(gameSessions[i].players[d].nickname))

\* a connection in a roster of two sent joinSession again, under the nickname of
\* the other member in another case, and was refused
C10_Witness ==
    /\ lastOp.op = "joinSession"
    /\ registered(lastOp.data.sessionId)
    /\ RejectedIn(outbox, lastOp.socket)
    /\ outbox[1].data = ErrorData("Nickname already taken")
    /\ LET session == getSession(lastOp.data.sessionId)
       IN  /\ Cardinality(DOMAIN session.players) >= 2
           /\ lastOp.socket \in DOMAIN session.players
           /\ \E d \in DOMAIN session.players \ {lastOp.socket} :
                  /\ session.players[d].nickname # lastOp.data.nickname
                  /\ trim(toLowerCase(session.players[d].nickname))
                        = trim(toLowerCase(lastOp.data.nickname))

\* C11: startGame sent by the host of a session whose roster has fewer than 4
\* entries is answered with an error to the host and changes no field of the
\* session, the registry or the word pool.
C11_StartGameTooFewPlayers ==
    [][(/\ lastOp'.op = "startGame"
        /\ registered(lastOp'.data.sessionId)
        /\ getSession(lastOp'.data.sessionId).host = lastOp'.socket
        /\ Cardinality(DOMAIN getSession(lastOp'.data.sessionId).players) < 4)
       => (/\ RejectedIn(outbox', lastOp'.socket)
           /\ gameSessions' = gameSessions
           /\ wordList' = wordList)]_vars

\* the host was refused with three players in the roster
C11_Witness ==
    /\ lastOp.op = "startGame"
    /\ registered(lastOp.data.sessionId)
    /\ getSession(lastOp.data.sessionId).host = lastOp.socket
    /\ Cardinality(DOMAIN getSession(lastOp.data.sessionId).players) = 3
    /\ getSession(lastOp.data.sessionId).phase = "lobby"
    /\ RejectedIn(outbox, lastOp.socket)
    /\ outbox[1].data = ErrorData("Minimum 4 players required")

\* the codes in the registry
registeredCodes(map) == {map[i].sessionId : i \in DOMAIN map}

\* C12 (as claimed): createSession with an integer duration d from 5 to 60 answers
\* its caller with sessionCreated and adds exactly one session to the registry, the
\* sessions registered before staying as they were; every other createSession, one
\* with another d, with a payload without duration or with no payload, is answered
\* with an error and leaves the registry as it was.
C12_CreateIffDurationInRange ==
    [][lastOp'.op = "createSession" =>
        IF /\ lastOp'.hasData
           /\ Has(lastOp'.data, "duration")
           /\ lastOp'.data.duration >= 5 /\ lastOp'.data.duration <= 60
        THEN /\ Len(outbox') = 1
             /\ outbox'[1].event = "sessionCreated"
             /\ outbox'[1].to = <<"socket", lastOp'.socket>>
             /\ Len(gameSessions') = Len(gameSessions) + 1
             /\ \A i \in DOMAIN gameSessions : gameSessions'[i] = gameSessions[i]
             /\ gameSessions'[Len(gameSessions')] =
                    NewGameSession(outbox'[1].data.sessionId, lastOp'.data.duration,
                                   lastOp'.socket)
        ELSE /\ RejectedIn(outbox', lastOp'.socket)
             /\ gameSessions' = gameSessions]_vars

\* the handler that ran last assigned the roles of a round
AssignedRoles ==
    /\ lastOp.op \in {"startGame", "newRound"}
    /\ outbox # << >>
    /\ outbox[Len(outbox)].event = "gameStarted"

\* the places of the outbox holding a roleAssigned event for a connection
roleAssignedTo(c) ==
    {i \in DOMAIN outbox : outbox[i].event = "roleAssigned" /\ outbox[i].to = <<"socket", c>>}

\* C13: a role assignment sends each live connection of the roster exactly one
\* roleAssigned event: to a spy the role spy and nothing else, so the same event
\* whatever word was drawn, to any other player the role civilian with currentWord.
C13_RoleEventsPerPlayer ==
    AssignedRoles =>
        LET session == getSession(lastOp.data.sessionId)
        IN  \A c \in (DOMAIN session.players) \cap sockets :
                /\ Cardinality(roleAssignedTo(c)) = 1
                /\ \A i \in roleAssignedTo(c) :
                      outbox[i].data = IF c \in session.spies
                                       THEN [role |-> "spy"]
                                       ELSE [role |-> "civilian", word |-> session.currentWord[1]]

\* a new round over four players drew the second word of the pool
C13_Witness ==
    /\ AssignedRoles
    /\ lastOp.op = "newRound"
    /\ LET session == getSession(lastOp.data.sessionId)
       IN  /\ Cardinality(DOMAIN session.players) = 4
           /\ session.currentWord = <<"river">>
           /\ \E c \in session.spies : \E i \in roleAssignedTo(c) : outbox[i].data = [role |-> "spy"]
           /\ \E c \in DOMAIN session.players \ session.spies :
                  \E i \in roleAssignedTo(c) : outbox[i].data.word = "river"

\* C14 (as claimed): startGame sent by the host with at least 4 players while the
\* word pool is empty is answered with an error to the host, and the process goes
\* on with the session and the word pool as they were before the call.
C14_EmptyPoolStartGameNoMutation ==
    [][(/\ lastOp'.op = "startGame"
        /\ registered(lastOp'.data.sessionId)
        /\ getSession(lastOp'.data.sessionId).host = lastOp'.socket
        /\ Cardinality(DOMAIN getSession(lastOp'.data.sessionId).players) >= 4
        /\ wordList = << >>)
       => (/\ RejectedIn(outbox', lastOp'.socket)
           /\ gameSessions' = gameSessions
           /\ wordList' = wordList
           /\ running')]_vars

\* C15 (as claimed): a joinSession whose nickname is blank after trimming or longer
\* than 20 characters is answered with an error and changes no roster and no set of
\* known nicknames.
C15_BlankOrLongNicknameRejected ==
    [][(/\ JoinStep
        /\ \/ trim(lastOp'.data.nickname) = << >>
           \/ Len(lastOp'.data.nickname) > 20)
       => (/\ RejectedIn(outbox', lastOp'.socket)
           /\ gameSessions' = gameSessions)]_vars

\* C16: a session whose registrationOpen is false keeps it false as long as it is
\* registered, its roster gains no entry, and every joinSession naming it is answered
\* with the error Registration is closed.
C16_RegistrationStaysClosed ==
    [][\A i \in DOMAIN gameSessions :
          ~gameSessions[i].registrationOpen =>
              /\ \A j \in DOMAIN gameSessions' :
                    gameSessions'[j].sessionId = gameSessions[i].sessionId =>
                        /\ ~gameSessions'[j].registrationOpen
                        /\ DOMAIN gameSessions'[j].players \subseteq DOMAIN gameSessions[i].players
              /\ (lastOp'.op = "joinSession"
                     /\ lastOp'.data.sessionId = gameSessions[i].sessionId) =>
                    /\ RejectedIn(outbox', lastOp'.socket)
                    /\ outbox'[1].data = ErrorData("Registration is closed")]_vars

\* a player was refused after the game had started and a member had left
C16_Witness ==
    /\ lastOp.op = "joinSession"
    /\ registered(lastOp.data.sessionId)
    /\ RejectedIn(outbox, lastOp.socket)
    /\ outbox[1].data = ErrorData("Registration is closed")
    /\ LET session == getSession(lastOp.data.sessionId)
       IN  /\ ~session.registrationOpen
           /\ session.phase = "ended"
           /\ lastOp.socket \notin DOMAIN session.players

\* the phase changes of a session: lobby to game, game to ended, ended to game
PhaseChanges == {<<"lobby", "game">>, <<"game", "ended">>, <<"ended", "game">>}

\* C17: the phase of a session changes only from lobby to game, from game to ended,
\* which only a firing timeout does, and from ended to game; it is never lobby again
\* once it has been game or ended.
C17_PhaseNeverBackToLobby ==
    [][\A i \in DOMAIN gameSessions, j \in DOMAIN gameSessions' :
          (/\ gameSessions'[j].sessionId = gameSessions[i].sessionId
           /\ gameSessions'[j].phase # gameSessions[i].phase)
          => /\ <<gameSessions[i].phase, gameSessions'[j].phase>> \in PhaseChanges
             /\ gameSessions'[j].phase = "ended" => lastOp'.op = "timeout"]_vars

\* a timeout has taken a session that left the lobby with four players to ended
C17_Witness ==
    /\ lastOp.op = "timeout"
    /\ getSession(lastOp.data.sessionId).phase = "ended"
    /\ Cardinality(getSession(lastOp.data.sessionId).spies) = 1
    /\ Cardinality(DOMAIN getSession(lastOp.data.sessionId).players) = 4

\* C18: startTimer sent by the host while the phase is lobby or ended is answered
\* with an error to the host only: no timeout is scheduled, no timerStarted is
\* broadcast and no field of the session changes.
C18_StartTimerOutsideGame ==
    [][(/\ lastOp'.op = "startTimer"
        /\ registered(lastOp'.data.sessionId)
        /\ getSession(lastOp'.data.sessionId).host = lastOp'.socket
        /\ getSession(lastOp'.data.sessionId).phase \in {"lobby", "ended"})
       => (/\ RejectedIn(outbox', lastOp'.socket)
           /\ gameSessions' = gameSessions
           /\ detached' = detached)]_vars

\* the host was refused a timer after the round had ended
C18_Witness ==
    /\ lastOp.op = "startTimer"
    /\ registered(lastOp.data.sessionId)
    /\ getSession(lastOp.data.sessionId).host = lastOp.socket
    /\ getSession(lastOp.data.sessionId).phase = "ended"
    /\ pendingTimers(getSession(lastOp.data.sessionId)) = 0
    /\ RejectedIn(outbox, lastOp.socket)
    /\ outbox[1].data = ErrorData("Unauthorized or invalid session state")

\* a timeout of a registered session is scheduled
TimerPending == \E i \in DOMAIN gameSessions : gameSessions[i].gameTimer = "pending"

\* a timeout has just fired: the session is ended and gameEnded, with the spy
\* nicknames of the session, went to its room
RoundEnded ==
    /\ lastOp.op = "timeout"
    /\ registered(lastOp.data.sessionId)
    /\ getSession(lastOp.data.sessionId).phase = "ended"
    /\ outbox = <<Broadcast(lastOp.data.sessionId, "gameEnded",
                            [spies |-> getSession(lastOp.data.sessionId).spyNicknames])>>

\* a new round has started, or the session has left the registry (abortGame,
\* closeGame, disconnect of the host)
RoundCancelled ==
    \/ lastOp.op = "newRound" /\ AssignedRoles
    \/ gameSessions = << >>

\* C19: after a successful startTimer, unless a new round starts or the session is
\* removed first, the session reaches phase ended and gameEnded with its spy
\* nicknames is broadcast to it.
C19_TimerEndsRound == TimerPending ~> (RoundEnded \/ RoundCancelled)

\* the timeout of a round of four players fired and named its spy
C19_Witness ==
    /\ RoundEnded
    /\ ~TimerPending
    /\ Cardinality(getSession(lastOp.data.sessionId).spyNicknames) = 1
    /\ Cardinality(DOMAIN getSession(lastOp.data.sessionId).players) = 4

\* the commands that name a session
SessionCommands == HostCommands \cup {"joinSession", "joinSessionAsHost"}

\* C20: a successful abortGame or closeGame broadcasts gameAborted or gameClosed
\* to the room of the session and takes its code out of the registry; every command
\* naming a code that is not in the registry is answered with an error and registers
\* nothing.
C20_RemovedSessionStaysRemoved ==
    [][/\ (/\ lastOp'.op \in {"abortGame", "closeGame"}
           /\ registered(lastOp'.data.sessionId)
           /\ getSession(lastOp'.data.sessionId).host = lastOp'.socket)
          => /\ outbox' = <<BroadcastOnly(lastOp'.data.sessionId,
                                         IF lastOp'.op = "abortGame" THEN "gameAborted"
                                                                     ELSE "gameClosed")>>
             /\ lastOp'.data.sessionId \notin registeredCodes(gameSessions')
       /\ (/\ lastOp'.op \in SessionCommands
           /\ ~registered(lastOp'.data.sessionId))
          => /\ RejectedIn(outbox', lastOp'.socket)
             /\ gameSessions' = gameSessions]_vars

\* after the session was removed during a game, its host was refused a new round
C20_Witness ==
    /\ draws = 1
    /\ gameSessions = << >>
    /\ sockets = Conns
    /\ lastOp.op = "newRound"
    /\ lastOp.socket = "h"
    /\ RejectedIn(outbox, lastOp.socket)

\* the error of a host command sent by another connection than the host
UnauthorizedIn(box, socketId) ==
    /\ RejectedIn(box, socketId)
    /\ box[1].data \in {ErrorData("Unauthorized or session not found"),
                        ErrorData("Unauthorized or invalid session state")}

\* C21: the host of a session changes only by a joinSessionAsHost naming the
\* session, which makes its caller the host; from then on the host commands of the
\* caller are not refused as unauthorized and those of the host before are.
C21_HostChangesOnlyByReclaim ==
    [][/\ \A i \in DOMAIN gameSessions, j \in DOMAIN gameSessions' :
             (/\ gameSessions'[j].sessionId = gameSessions[i].sessionId
              /\ gameSessions'[j].host # gameSessions[i].host)
             => /\ lastOp'.op = "joinSessionAsHost"
                /\ lastOp'.data.sessionId = gameSessions[i].sessionId
       /\ (lastOp'.op = "joinSessionAsHost" /\ registered(lastOp'.data.sessionId))
             => \E j \in DOMAIN gameSessions' :
                   /\ gameSessions'[j].sessionId = lastOp'.data.sessionId
                   /\ gameSessions'[j].host = lastOp'.socket
       /\ (lastOp'.op \in HostCommands /\ registered(lastOp'.data.sessionId))
             => LET session == getSession(lastOp'.data.sessionId)
                IN  IF session.host # lastOp'.socket
                    THEN UnauthorizedIn(outbox', lastOp'.socket)
                    ELSE (lastOp'.op = "startTimer" => session.phase = "game")
                            => ~UnauthorizedIn(outbox', lastOp'.socket)]_vars

\* p1 has reclaimed the session h created, and a new round of h was refused
C21_Witness ==
    /\ lastOp.op = "newRound"
    /\ lastOp.socket = "h"
    /\ registered(lastOp.data.sessionId)
    /\ getSession(lastOp.data.sessionId).host = "p1"
    /\ getSession(lastOp.data.sessionId).phase = "game"
    /\ UnauthorizedIn(outbox, "h")

\* the places of the outbox holding an event of the given name
eventPlaces(event) == {i \in DOMAIN outbox : outbox[i].event = event}

\* C22: the events of one role assignment are emitted in this order: every
\* roleAssigned before the one gameStarted, and in newRound the one newRoundStarted
\* before gameStarted too.
C22_EventOrder ==
    lastOp.op \in {"startGame", "newRound"} /\ eventPlaces("gameStarted") # {} =>
        /\ Cardinality(eventPlaces("gameStarted")) = 1
        /\ \A g \in eventPlaces("gameStarted") :
              /\ g = Len(outbox)
              /\ \A r \in eventPlaces("roleAssigned") : r < g
              /\ \A n \in eventPlaces("newRoundStarted") : n < g
        /\ Cardinality(eventPlaces("newRoundStarted")) = (IF lastOp.op = "newRound" THEN 1 ELSE 0)

\* a new round over four players: four roleAssigned, newRoundStarted, gameStarted
C22_Witness ==
    /\ lastOp.op = "newRound"
    /\ Len(outbox) = 6
    /\ eventPlaces("roleAssigned") = 1..4
    /\ eventPlaces("newRoundStarted") = {5}
    /\ eventPlaces("gameStarted") = {6}

\* C23: every gameEnded event the server broadcasts carries a non-empty list of
\* spy nicknames.
C23_GameEndedNamesASpy ==
    \A i \in DOMAIN outbox :
        outbox[i].event = "gameEnded" => outbox[i].data.spies # {}

\* C24: sessions are isolated: a command or a timeout addressed to one session, and
\* a createSession of a further session, leave every other registered session, and
\* its entry of the registry, as they were.
C24_SessionsIsolated ==
    [][\A i \in DOMAIN gameSessions :
          (\/ lastOp'.op \in {"createSession", "timeoutDetached"}
           \/ /\ lastOp'.op \in SessionCommands \cup {"timeout"}
              /\ lastOp'.data.sessionId # gameSessions[i].sessionId)
          => /\ i \in DOMAIN gameSessions'
             /\ gameSessions'[i] = gameSessions[i]]_vars

\* C25: once the disconnect of a connection has been handled, the connection is a
\* key of the roster of no registered session and a member of the spies of none.
C25_DisconnectedInNoRoster ==
    \A c \in Conns \ sockets, i \in DOMAIN gameSessions :
        /\ c \notin DOMAIN gameSessions[i].players
        /\ c \notin gameSessions[i].spies

\* C26: a startTimer issued while an earlier timeout of the session is pending
\* invalidates the earlier one: the timeout that fires, ends the round and
\* broadcasts gameEnded is never one that a later startTimer has superseded.
C26_SupersededTimerNeverFires ==
    [][lastOp'.op = "timeout" =>
          \A i \in DOMAIN gameSessions :
              gameSessions[i].sessionId = lastOp'.data.sessionId
              => gameSessions[i].uncleared = 0]_vars

\* C27: newRound cancels every timeout scheduled before it: a successful newRound
\* leaves the session in phase game with no start time and registration closed,
\* and a timeout ends a round only while a startTimer issued after the last
\* newRound is pending.
C27_NewRoundCancelsTimers ==
    [][/\ (/\ lastOp'.op = "newRound"
           /\ outbox' # << >>
           /\ outbox'[Len(outbox')].event = "gameStarted")
          => \E j \in DOMAIN gameSessions' :
                /\ gameSessions'[j].sessionId = lastOp'.data.sessionId
                /\ gameSessions'[j].phase = "game"
                /\ gameSessions'[j].gameStartTime = Null
                /\ gameSessions'[j].registrationOpen = FALSE
       /\ lastOp'.op = "timeout"
          => \A i \in DOMAIN gameSessions :
                gameSessions[i].sessionId = lastOp'.data.sessionId
                => gameSessions[i].gameTimer = "pending"]_vars

\* C28: the disconnect of a roster member that is not the host takes exactly that
\* connection out of the roster and out of spies of the session, changes no other
\* field and no other session, and broadcasts playersUpdated with the new roster;
\* the disconnect of a connection that is in no roster changes no session.
C28_MemberDisconnectFrame ==
    [][lastOp'.op = "disconnect" =>
          LET c == lastOp'.socket
          IN  IF firstWith(c) = {}
              THEN gameSessions' = gameSessions
              ELSE \A i \in firstWith(c) :
                     gameSessions[i].host # c =>
                       /\ DOMAIN gameSessions' = DOMAIN gameSessions
                       /\ \A j \in DOMAIN gameSessions : j # i => gameSessions'[j] = gameSessions[j]
                       /\ DOMAIN gameSessions'[i].players = (DOMAIN gameSessions[i].players) \ {c}
                       /\ \A d \in DOMAIN gameSessions'[i].players :
                             gameSessions'[i].players[d] = gameSessions[i].players[d]
                       /\ gameSessions'[i].spies = gameSessions[i].spies \ {c}
                       /\ [gameSessions'[i] EXCEPT !.players = gameSessions[i].players,
                                                   !.playerKeys = gameSessions[i].playerKeys,
                                                   !.spies = gameSessions[i].spies]
                          = gameSessions[i]
                       /\ outbox' = <<Broadcast(gameSessions[i].sessionId, "playersUpdated",
                                         [players |-> getPlayerList(gameSessions'[i]),
                                          count |-> Cardinality(DOMAIN gameSessions'[i].players)])>>]_vars

\* the spy of a running round has left: it is in neither roster nor spies, its
\* nickname still is in spyNicknames, and the three others were told
C28_Witness ==
    /\ lastOp.op = "disconnect"
    /\ lastOp.socket = "p1"
    /\ \E i \in DOMAIN gameSessions :
          /\ gameSessions[i].host = "h"
          /\ gameSessions[i].phase = "game"
          /\ DOMAIN gameSessions[i].players = {"p2", "p3", "p4"}
          /\ gameSessions[i].spies = {}
          /\ gameSessions[i].spyNicknames = {NickAl}
          /\ gameSessions[i].allPlayerNicknames = {NickAl, NickBo, NickCy, NickDi}
          /\ Len(outbox) = 1
          /\ outbox[1].event = "playersUpdated"
          /\ outbox[1].data.count = 3

\* C29: allPlayerNicknames of a session holds the nickname of every entry of its
\* roster, in every state, and no step takes an element out of it.
C29_KnownNicknamesGrow ==
    [][/\ \A j \in DOMAIN gameSessions' :
             {gameSessions'[j].players[c].nickname : c \in DOMAIN gameSessions'[j].players}
                 \subseteq gameSessions'[j].allPlayerNicknames
       /\ \A i \in DOMAIN gameSessions, j \in DOMAIN gameSessions' :
             gameSessions'[j].sessionId = gameSessions[i].sessionId
             => gameSessions[i].allPlayerNicknames \subseteq gameSessions'[j].allPlayerNicknames]_vars

\* a player has left and another is in the roster: the nickname of the one that
\* left is known still, next to that of the one that stayed
C29_Witness ==
    /\ lastOp.op = "disconnect"
    /\ \E i \in DOMAIN gameSessions :
          /\ lastOp.socket \notin DOMAIN gameSessions[i].players
          /\ DOMAIN gameSessions[i].players # {}
          /\ \E n \in gameSessions[i].allPlayerNicknames :
                \A c \in DOMAIN gameSessions[i].players : gameSessions[i].players[c].nickname # n
          /\ \A c \in DOMAIN gameSessions[i].players :
                gameSessions[i].players[c].nickname \in gameSessions[i].allPlayerNicknames

\* C30: right after every role assignment, by startGame or by newRound,
\* spyNicknames is exactly the set of the nicknames of the connections the
\* assignment has put in spies, and has as many elements as spies.
C30_SpyNicknamesOfSpies ==
    (/\ lastOp.op \in {"startGame", "newRound"}
     /\ outbox # << >>
     /\ outbox[Len(outbox)].event = "gameStarted")
    => LET session == getSession(lastOp.data.sessionId)
       IN  /\ session.spies \subseteq DOMAIN session.players
           /\ session.spyNicknames = {session.players[c].nickname : c \in session.spies}
           /\ Cardinality(session.spyNicknames) = Cardinality(session.spies)

\* a newRound that has run to its end
NewRoundDone(op, box) ==
    /\ op.op = "newRound"
    /\ box # << >>
    /\ box[Len(box)].event = "gameStarted"

\* C31: after a successful newRound every entry of the roster belongs to a live
\* connection, the entries of dead connections being dropped from roster and
\* spies, and the spies of the new round come from the roster as it was when
\* newRound was issued.
C31_NewRoundDropsDeadEntries ==
    [][NewRoundDone(lastOp', outbox') =>
          \A i \in DOMAIN gameSessions, j \in DOMAIN gameSessions' :
              (/\ gameSessions[i].sessionId = lastOp'.data.sessionId
               /\ gameSessions'[j].sessionId = lastOp'.data.sessionId)
              => /\ DOMAIN gameSessions'[j].players = (DOMAIN gameSessions[i].players) \cap sockets
                 /\ gameSessions'[j].spies \subseteq sockets
                 /\ gameSessions'[j].spies \subseteq DOMAIN gameSessions[i].players]_vars

\* selectRandomWord has returned
WordSelected == frame.fn = "selectRandomWord" /\ frame.pc = "done"

\* C33: word selection terminates on every non-empty pool: on a pool of one word
\* it returns that word after one draw, also when it is the excluded word, and on
\* a larger pool the loop is left, the draws being fair, with a word that is not
\* the excluded one.
C33_WordSelectionTerminates ==
    /\ <>WordSelected
    /\ [](WordSelected =>
            /\ frame.currentWord = frame.selectedWord
            /\ \E i \in DOMAIN frame.words : <<frame.words[i]>> = frame.currentWord
            /\ Len(frame.words) = 1 => frame.drawn = 1
            /\ Len(frame.words) > 1 => frame.currentWord # frame.excluded)

\* the one word of the pool, which is the excluded word, was returned after one draw
C33_Witness ==
    /\ WordSelected
    /\ Len(frame.words) = 1
    /\ frame.excluded = <<frame.words[1]>>
    /\ frame.currentWord = frame.excluded
    /\ frame.drawn = 1

\* how often x is an element of the sequence
occurrences(seq, x) == Cardinality({i \in DOMAIN seq : seq[i] = x})

\* the sequences that list the elements of seq in some order
permutationsOf(seq) ==
    {[i \in DOMAIN seq |-> seq[f[i]]] :
        f \in {g \in [DOMAIN seq -> DOMAIN seq] :
                  \A i \in DOMAIN seq, j \in DOMAIN seq : g[i] = g[j] => i = j}}

\* C34: whatever the input and the random draws, secureshuffle returns a sequence
\* of the same length holding the same elements as often, and leaves its input as
\* it was; every permutation of the input is the result for some draws.
C34_ShuffleIsPermutation ==
    frame.fn = "secureshuffle" =>
        /\ frame.array = frame.input
        /\ {secureshuffle(frame.input, rnd) : rnd \in ShuffleDraws(Len(frame.input))}
               = permutationsOf(frame.input)
        /\ frame.pc = "done" =>
              /\ Len(frame.shuffled) = Len(frame.input)
              /\ \A x \in {"a", "b", "c"} :
                    occurrences(frame.shuffled, x) = occurrences(frame.input, x)

\* four elements, one of them twice, came back in another order
C34_Witness ==
    /\ frame.fn = "secureshuffle"
    /\ frame.pc = "done"
    /\ frame.input = <<"a", "b", "a", "c">>
    /\ frame.shuffled = <<"c", "a", "b", "a">>
    /\ frame.array = frame.input

\* C35: while the server runs, registration of a registered session is open
\* exactly when the session is in phase lobby.
C35_RegistrationOpenIffLobby ==
    running =>
        \A i \in DOMAIN gameSessions :
            gameSessions[i].registrationOpen <=> (gameSessions[i].phase = "lobby")

\* startGame has just closed the registration of a lobby of four
C35_Witness ==
    /\ running
    /\ StartedGame
    /\ LET session == getSession(lastOp.data.sessionId)
       IN  /\ session.phase = "game"
           /\ ~session.registrationOpen
           /\ Cardinality(DOMAIN session.players) = 4
           /\ session.previousWord = << >>

\* C36: no role assignment runs on a roster of fewer than four players: a startGame
\* or newRound that puts a session in phase game and assigns its spies and its
\* word found at least four entries in the roster.
C36_RoleAssignmentNeedsFour ==
    [][(/\ lastOp'.op \in {"startGame", "newRound"}
        /\ outbox' # << >>
        /\ outbox'[Len(outbox')].event = "gameStarted")
       => Cardinality(DOMAIN getSession(lastOp'.data.sessionId).players) >= 4]_vars

\* C37: startGame succeeds only in phase lobby: sent by the host in phase game or
\* ended it assigns no roles, so a session is started once.
C37_StartGameOnlyInLobby ==
    [][(/\ lastOp'.op = "startGame"
        /\ outbox' # << >>
        /\ outbox'[Len(outbox')].event = "gameStarted")
       => getSession(lastOp'.data.sessionId).phase = "lobby"]_vars

\* C38: in every state an entry of the roster has isHost true exactly when its
\* connection is the host of the session.
C38_IsHostMarksTheHost ==
    \A i \in DOMAIN gameSessions :
        \A c \in DOMAIN gameSessions[i].players :
            gameSessions[i].players[c].isHost <=> (c = gameSessions[i].host)

\* C39: once a session has left the registry, by abortGame, closeGame or the
\* disconnect of its host, no timeout of it fires: every gameEnded is broadcast by
\* the timeout of a session that is registered.
C39_NoTimeoutAfterRemoval ==
    \A i \in DOMAIN outbox :
        outbox[i].event = "gameEnded" =>
            /\ lastOp.op = "timeout"
            /\ registered(lastOp.data.sessionId)

\* C40: every successful joinSession adds one new entry to the roster: the caller
\* had no entry before, the roster is larger by one, and the entries of the others
\* are as they were.
C40_JoinAddsOneEntry ==
    [][(/\ JoinStep
        /\ outbox' # << >>
        /\ outbox'[1].event = "joinedSession")
       => LET before == getSession(lastOp'.data.sessionId)
          IN  \E j \in DOMAIN gameSessions' :
                /\ gameSessions'[j].sessionId = before.sessionId
                /\ lastOp'.socket \notin DOMAIN before.players
                /\ Cardinality(DOMAIN gameSessions'[j].players)
                      = Cardinality(DOMAIN before.players) + 1]_vars

====
